---- MODULE Spec2Model ----
(***************************************************************************)
(* Model of the scheduled-event role service of Lovelace:                  *)
(*   ScheduleEventsService (src/unnamed/part_000, the variant that puts    *)
(*   customRoleId on the returned event, and                               *)
(*   src/src/lib/ScheduledEventService.ts, the variant that returns the    *)
(*   plain event and offers getEventRoleId / getEventRole), and the        *)
(*   client-ready listener OnClientReady.run                               *)
(*   (src/src/listeners/event-roles/eventInit.ts).                         *)
(*                                                                         *)
(* Every await of the code is one step of the model: the outcome of the    *)
(* awaited external call (database, Discord API, work queue) is drawn      *)
(* there, and the synchronous code up to the next await runs with it.      *)
(***************************************************************************)
EXTENDS Integers, Sequences, FiniteSets, TLC

\* ---------------------------------------------------------------- bounds
NumEvents == 2
NumUsers == 2
MaxRoles == 2
NumTasks == 2
MaxFrequency == 5

Events == 1..NumEvents
Users == 1..NumUsers
RoleIds == 1..MaxRoles
TaskIds == 1..NumTasks

VARIABLES
  variant,   \* "embed" (part_000) or "plain" (lib/ScheduledEventService.ts)
  guild,     \* guild[e]: scheduledEvent.guild resolves for event e
  db,        \* the persisted EventRecords, a set of [eventId, roleId]
  created,   \* created[r] = the event whose processEvent created role r
  deleted,   \* roles deleted in the guild by someone else
  tasks,     \* tasks[t]: one processEvent invocation, at its await point
  prev,      \* the processEvent call that completed last: its event, its result
             \* ("zero" for the null of a write of zero rows, with the role made)
  batch,     \* the batchProcessEvents invocation
  lookup,    \* the last getEventRole call and what it returned
  pass,      \* the client-ready listener's run()
  queue,     \* customRoleQueue: the assignment intents, in order
  observed,  \* observed[u], for the event run() is at: whether u's fetched
             \* member held that event's role
  naming,    \* createCustomRole's naming of a role: the event, the name built
  unwritten, \* the roles whose write failed: zero rows, or an error
  twin       \* lib/ScheduledEventService.ts run beside part_000: its store, its
             \* roles, its processEvent invocation, its batchProcessEvents

vars == <<variant, guild, db, created, deleted, tasks, prev, batch, lookup,
          pass, queue, observed, naming, unwritten, twin>>

\* ---------------------------------------------------------------- values
NoRole == 0
NoEvent == 0
NoRec == [eventId |-> NoEvent, roleId |-> NoRole]
Pending == [kind |-> "pending", id |-> NoEvent, customRoleId |-> NoRole]
Null == [kind |-> "null", id |-> NoEvent, customRoleId |-> NoRole]
Threw == [kind |-> "threw", id |-> NoEvent, customRoleId |-> NoRole]

IdleTask ==
  [pc |-> "idle", ev |-> NoEvent, after |-> "none", role |-> NoRole, fx |-> <<>>,
   ret |-> Pending, dbStart |-> {}, rolesStart |-> 0]

IdleBatch == [pc |-> "idle", input |-> <<>>, idx |-> 0, result |-> <<>>, log |-> <<>>]

NoPrev == [ev |-> NoEvent, kind |-> "none", role |-> NoRole]

NoLookup == [ev |-> NoEvent, out |-> "none", role |-> NoRole, gone |-> FALSE]

IdlePass ==
  [pc |-> "idle", processed |-> <<>>, i |-> 0, roleId |-> NoRole, subs |-> {},
   members |-> {}]

\* Of a member that run() has not fetched.
NotChecked == "unchecked"
NotObserved == [u \in Users |-> NotChecked]

\* The ordered collections keyed by identifier: no key twice.
RECURSIVE SeqsOver(_, _)
SeqsOver(S, n) ==
  IF n = 0 THEN {<<>>}
  ELSE LET shorter == SeqsOver(S, n - 1)
       IN shorter \cup
          {Append(s, x) : s \in {q \in shorter : Len(q) = n - 1}, x \in S}

Injective(s) == \A i, j \in 1..Len(s) : i # j => s[i] # s[j]
EventMaps == {s \in SeqsOver(Events, NumEvents) : Injective(s)}

\* What acmguild.scheduledEvents.fetch() resolves to: a Collection of the
\* guild's events, iterated in one order. run() treats every event alike and
\* Init is closed under renaming the events, so the order by id stands for
\* every order.
FetchedMaps ==
  {s \in EventMaps : \A i, j \in 1..Len(s) : i < j => s[i] < s[j]}

\* The roles created so far for event e.
RolesOf(e) == {r \in 1..Len(created) : created[r] = e}
RecordsOf(d, e) == {rec \in d : rec.eventId = e}

\* ------------------------------------------- the persistence store (external)
\* database.findScheduledEvent(eventId): the record, or null.
FindScheduledEvent(d, e) ==
  IF RecordsOf(d, e) # {} THEN CHOOSE rec \in RecordsOf(d, e) : TRUE ELSE NoRec

\* database.createScheduledEvent(eventId, roleId): what the store can answer.
\* eventId is its unique key: a second record for it is refused.
WriteOutcomes(d, e) ==
  IF RecordsOf(d, e) # {} THEN {"zero", "threw"} ELSE {"ok", "zero", "threw"}

AffectedRows(out) == IF out = "ok" THEN 1 ELSE 0

Insert(d, e, r, out) ==
  IF out = "ok" THEN d \cup {[eventId |-> e, roleId |-> r]} ELSE d

\* -------------------------------------------------------- createCustomRole
\* scheduledEvent.recurrenceRule == null
NoRule == 0 - 2

\* What recurrenceRule.frequency can hold: the four of the API and others.
Frequencies == (0 - 1)..MaxFrequency

\* scheduledStartTimestamp, as the calendar fields of the moment; none if null.
NoStart == [month |-> 0, day |-> 0, hour |-> 0, minute |-> 0]
Starts ==
  {NoStart,
   [month |-> 3, day |-> 3, hour |-> 18, minute |-> 0],
   [month |-> 12, day |-> 31, hour |-> 23, minute |-> 59],
   [month |-> 1, day |-> 9, hour |-> 7, minute |-> 5],
   [month |-> 10, day |-> 20, hour |-> 0, minute |-> 30]}

EventNames == {"Standup", "Board Game Night", "Weekly Yearly Daily Monthly Review"}

\* The scheduled events createCustomRole can be given.
EventInputs ==
  [name : EventNames, rule : {NoRule} \cup Frequencies, start : Starts]

NoNaming ==
  [pc |-> "idle", event |-> [name |-> "", rule |-> NoRule, start |-> NoStart],
   name |-> ""]

\* reasonableTruncate(name), of ./utils: a name within the length budget is
\* kept, a longer one is cut to it.
NameBudget == 20
ReasonableTruncate(name) ==
  IF Len(name) > NameBudget THEN SubSeq(name, 1, NameBudget) ELSE name

\* new Timestamp('MMM-DD HH:mm').display(startTime)
MonthAbbrev ==
  <<"Jan", "Feb", "Mar", "Apr", "May", "Jun", "Jul", "Aug", "Sep", "Oct", "Nov", "Dec">>
Digit == <<"0", "1", "2", "3", "4", "5", "6", "7", "8", "9">>
TwoDigits(n) == Digit[(n \div 10) + 1] \o Digit[(n % 10) + 1]
Display(t) ==
  MonthAbbrev[t.month] \o "-" \o TwoDigits(t.day) \o " " \o
  TwoDigits(t.hour) \o ":" \o TwoDigits(t.minute)

\* scheduledEvent.scheduledStartTimestamp || new Date(0)
EpochStart == [month |-> 1, day |-> 1, hour |-> 0, minute |-> 0]
StartTime(start) == IF start = NoStart THEN EpochStart ELSE start

\* A switch with the cases one off.
FreqStringShifted(frequency) ==
  CASE frequency = 1 -> "Yearly"
    [] frequency = 2 -> "Monthly"
    [] frequency = 3 -> "Weekly"
    [] frequency = 4 -> "Daily"
    [] OTHER -> ""

\* let freqString = ''; switch (frequency) { case 0: ... case 3: ... }
FreqString(frequency) ==
  CASE frequency = 0 -> "Yearly"
    [] frequency = 1 -> "Monthly"
    [] frequency = 2 -> "Weekly"
    [] frequency = 3 -> "Daily"
    [] OTHER -> ""

\* The name createCustomRole passes to guild.roles.create.
RoleName(event) ==
  IF event.rule = NoRule
    THEN ReasonableTruncate(event.name) \o " [" \o Display(StartTime(event.start)) \o "]"
    ELSE ReasonableTruncate(event.name) \o " [" \o FreqString(event.rule) \o "]"

\* createCustomRole(scheduledEvent) is entered.
NameCall(event) ==
  /\ naming.pc \in {"idle", "named"}
  /\ naming' = [pc |-> "start", event |-> event, name |-> ""]
  /\ UNCHANGED <<twin, unwritten, variant, guild, db, created, deleted, tasks, prev, batch, lookup,
                 pass, queue, observed>>

\* The name is built, up to the await of guild.roles.create.
NameRole ==
  /\ naming.pc = "start"
  /\ naming' = [naming EXCEPT !.pc = "named", !.name = RoleName(naming.event)]
  /\ UNCHANGED <<twin, unwritten, variant, guild, db, created, deleted, tasks, prev, batch, lookup,
                 pass, queue, observed>>

\* ------------------------------ lib/ScheduledEventService.ts, run alongside
TwinIdleTask ==
  [pc |-> "idle", ev |-> NoEvent, role |-> NoRole, fx |-> <<>>, ret |-> Pending]

TwinIdleBatch == [pc |-> "idle", input |-> <<>>, idx |-> 0, result |-> <<>>]

TwinInit ==
  [db |-> {}, created |-> <<>>, task |-> TwinIdleTask, batch |-> TwinIdleBatch]

\* ------------------------------------------------------------ processEvent
\* The guild check left out.
GuildNeverMissing(e) == FALSE

\* if (!scheduledEvent.guild)
GuildMissing(e) == ~guild[e]

\* A check that takes every lookup for a hit.
RecordAlwaysFound(rec) == TRUE

\* The record check left out.
RecordNeverFound(rec) == FALSE

\* if (dbEntry) / if (dbEvent)
RecordFound(rec) == rec # NoRec

\* The role check turned round.
RoleMissingInverted(role) == role # NoRole

\* The role check left out.
RoleNeverMissing(role) == FALSE

\* if (!role)
RoleMissing(role) == role = NoRole

\* A check that no answer of the store passes.
WriteNeverAccepted(rows) == FALSE

\* >= for >.
WriteAlwaysAccepted(rows) == rows >= 0

\* if (response.affectedRows > 0)
WriteAccepted(rows) == rows > 0

\* A catch that rethrows.
OnErrorRethrow == Threw

\* catch (error) { ...; return null; }
OnError == Null

\* An event returned as it came, in either variant.
ReturnedBare(v, e, r) == [kind |-> "event", id |-> e, customRoleId |-> NoRole]

\* The event as returned: part_000 sets scheduledEvent.customRoleId first,
\* the lib variant returns the event as it came.
Returned(v, e, r) ==
  [kind |-> "event", id |-> e, customRoleId |-> IF v = "embed" THEN r ELSE NoRole]

\* What a completed invocation is remembered by.
Completed(tk) ==
  LET zero == \E i \in 1..Len(tk.fx) : tk.fx[i] = <<"write", "zero">>
  IN [ev |-> tk.ev, kind |-> IF zero THEN "zero" ELSE tk.ret.kind,
      role |-> IF zero THEN tk.role ELSE NoRole]

Finish(tk, result) == [tk EXCEPT !.pc = "ret", !.ret = result]
Did(tk, op, out) == [tk EXCEPT !.fx = Append(@, <<op, out>>)]

\* processEvent is entered: the guild check runs, then findScheduledEvent is awaited.
EnterAfter(last, e) ==
  LET tk == [IdleTask EXCEPT !.ev = e, !.after = IF last.ev = e THEN last.kind ELSE "none",
                             !.dbStart = db, !.rolesStart = Len(created)]
  IN IF GuildMissing(e) THEN Finish(tk, Null) ELSE [tk EXCEPT !.pc = "find"]

Enter(e) == EnterAfter(prev, e)

\* await database.findScheduledEvent(...) settles.
PE_Find(t) ==
  /\ tasks[t].pc = "find"
  /\ \E out \in {"ok", "threw"} :
       LET rec == FindScheduledEvent(db, tasks[t].ev)
           tk == Did(tasks[t], "find",
                     IF out = "threw" THEN "threw"
                     ELSE IF rec = NoRec THEN "none" ELSE "found")
       IN tasks' = [tasks EXCEPT ![t] =
            IF out = "threw" THEN Finish(tk, OnError)
            ELSE IF RecordFound(rec)
              THEN Finish(tk, Returned(variant, tk.ev, rec.roleId))
              ELSE [tk EXCEPT !.pc = "create"]]
  /\ UNCHANGED <<twin, unwritten, naming, variant, guild, db, created, deleted, prev, batch, lookup,
                 pass, queue, observed>>

\* await this.createCustomRole(...) settles: guild.roles.create made a role,
\* gave nothing, or threw.
PE_Create(t) ==
  /\ tasks[t].pc = "create"
  /\ \E out \in {"ok", "undef", "threw"} :
       LET tk == tasks[t]
           role == IF out = "ok" THEN Len(created) + 1 ELSE NoRole
       IN /\ out = "ok" => Len(created) < MaxRoles
          /\ created' = IF out = "ok" THEN Append(created, tk.ev) ELSE created
          /\ tasks' = [tasks EXCEPT ![t] =
               IF out = "threw" THEN Finish(Did(tk, "create", "threw"), OnError)
               ELSE IF RoleMissing(role)
                 THEN Finish(Did(tk, "create", out), Null)
                 ELSE [Did(tk, "create", out) EXCEPT !.pc = "write", !.role = role]]
  /\ UNCHANGED <<twin, unwritten, naming, variant, guild, db, deleted, prev, batch, lookup, pass, queue,
                 observed>>

\* A failed write that takes the role out of the guild again.
RoleRemoved(roles, role) == [roles EXCEPT ![role] = NoEvent]

\* if (!newDbEntry) { client.logger.error(...); return null; }: the guild's
\* roles after it.
AfterFailedWrite(roles, role) == roles

\* await this.createEventDBEntry(...) settles: createScheduledEvent answered,
\* then processQueues() is called if a row was written.
PE_Write(t) ==
  /\ tasks[t].pc = "write"
  /\ \E out \in WriteOutcomes(db, tasks[t].ev), sig \in {"ok", "threw"} :
       LET tk == Did(tasks[t], "write", out)
       IN /\ db' = Insert(db, tk.ev, tk.role, out)
          /\ unwritten' = IF out \in {"zero", "threw"} THEN unwritten \cup {tk.role}
                           ELSE unwritten
          /\ created' = IF out # "threw" /\ ~WriteAccepted(AffectedRows(out))
                          THEN AfterFailedWrite(created, tk.role) ELSE created
          /\ tasks' = [tasks EXCEPT ![t] =
               IF out = "threw" THEN Finish(tk, OnError)
               ELSE IF WriteAccepted(AffectedRows(out))
                 THEN IF sig = "threw"
                        THEN Finish(Did(tk, "signal", "threw"), OnError)
                        ELSE Finish(Did(tk, "signal", "ok"),
                                    Returned(variant, tk.ev, tk.role))
                 ELSE Finish(tk, Null)]
  /\ UNCHANGED <<twin, naming, variant, guild, deleted, prev, batch, lookup, pass,
                 queue, observed>>

\* ------------------------------------------------- direct calls of processEvent
\* No batch, no listener run and no getEventRole is under way.
Quiet == batch.pc = "idle" /\ pass.pc = "idle" /\ lookup.out = "none"

\* A caller outside the batch calls processEvent(e).
Call(t, e) ==
  /\ tasks[t].pc = "idle"
  /\ Quiet
  /\ tasks' = [tasks EXCEPT ![t] = Enter(e)]
  /\ UNCHANGED <<twin, unwritten, naming, variant, guild, db, created, deleted, prev, batch, lookup,
                 pass, queue, observed>>

\* The caller has the result.
Return(t) ==
  /\ tasks[t].pc = "ret"
  /\ batch.pc = "idle"
  /\ prev' = Completed(tasks[t])
  /\ tasks' = [tasks EXCEPT ![t] = IdleTask]
  /\ UNCHANGED <<twin, unwritten, naming, variant, guild, db, created, deleted, batch, lookup, pass,
                 queue, observed>>

\* ------------------------------------------------------ batchProcessEvents
\* A loop that pushes the processed events only.
PushedIfEvent(result, ret) ==
  IF ret.kind = "event" THEN Append(result, ret) ELSE result

\* result.push(customEvent), or result.push(null) in the catch.
Pushed(result, ret) == Append(result, IF ret.kind = "threw" THEN Null ELSE ret)

\* A loop that takes the event it just had.
FollowingAgain(input, idx) == input[idx]

\* for (const [_, event] of events): the event after the one at idx.
Following(input, idx) == input[idx + 1]

\* batchProcessEvents(events) is entered: the loop reaches its first await.
BatchEnter(input) ==
  /\ tasks' = [tasks EXCEPT ![1] = IF input = <<>> THEN IdleTask ELSE Enter(input[1])]
  /\ batch' = [pc |-> IF input = <<>> THEN "done" ELSE "run", input |-> input,
               idx |-> 1, result |-> <<>>, log |-> <<>>]

\* await this.processEvent(event) settles: push, then the next iteration or return.
BatchCollect ==
  /\ batch.pc = "run"
  /\ tasks[1].pc = "ret"
  /\ LET tk == tasks[1]
         more == batch.idx < Len(batch.input)
     IN /\ batch' = [batch EXCEPT !.result = Pushed(@, tk.ret),
                                  !.log = Append(@, tk),
                                  !.idx = IF more THEN @ + 1 ELSE @,
                                  !.pc = IF more THEN "run" ELSE "done"]
        /\ tasks' = [tasks EXCEPT ![1] =
             IF more THEN EnterAfter(Completed(tk), Following(batch.input, batch.idx))
             ELSE IdleTask]
        /\ prev' = Completed(tk)
  /\ UNCHANGED <<twin, unwritten, naming, variant, guild, db, created, deleted, lookup, pass, queue, observed>>

\* A caller outside the listener calls batchProcessEvents(events).
BatchCall(input) ==
  /\ Quiet
  /\ \A t \in TaskIds : tasks[t].pc = "idle"
  /\ BatchEnter(input)
  /\ UNCHANGED <<twin, unwritten, naming, variant, guild, db, created, deleted, prev, lookup, pass, queue,
                 observed>>

\* That caller has the array.
BatchReturn ==
  /\ batch.pc = "done"
  /\ pass.pc = "idle"
  /\ batch' = IdleBatch
  /\ UNCHANGED <<twin, unwritten, naming, variant, guild, db, created, deleted, tasks, prev, lookup, pass,
                 queue, observed>>

\* ------------------------------------------------ getEventRoleId, getEventRole
\* A lookup that never has a role id.
RoleIdNever(rec) == NoRole

\* return dbEvent?.roleId || null
RoleIdOf(rec) == IF rec # NoRec /\ rec.roleId # NoRole THEN rec.roleId ELSE NoRole

\* A lookup that takes the role for present without fetching it.
RoleTakenFromId(roleId, out) == roleId

\* try { return await scheduledEvent.guild.roles.fetch(roleId) } catch { return null }
RoleFetched(roleId, out) ==
  IF out = "threw" \/ roleId \in deleted THEN NoRole ELSE roleId

\* getEventRole(scheduledEvent), lib variant only. The find of getEventRoleId is
\* outside the try; guild.roles.fetch(roleId) is inside it.
GetEventRole(e) ==
  /\ variant = "plain"
  /\ Quiet
  /\ \A t \in TaskIds : tasks[t].pc = "idle"
  /\ \E find \in {"ok", "threw"}, fetch \in {"ok", "threw"} :
       LET roleId == RoleIdOf(FindScheduledEvent(db, e))
           gone == roleId \in deleted
       IN lookup' =
            IF GuildMissing(e)
              THEN [ev |-> e, out |-> "null", role |-> NoRole, gone |-> FALSE]
            ELSE IF find = "threw"
              THEN [ev |-> e, out |-> "threw", role |-> NoRole, gone |-> FALSE]
            ELSE IF roleId = NoRole
              THEN [ev |-> e, out |-> "null", role |-> NoRole, gone |-> FALSE]
            ELSE IF RoleFetched(roleId, fetch) = NoRole
              THEN [ev |-> e, out |-> "null", role |-> roleId, gone |-> gone]
            ELSE [ev |-> e, out |-> "role", role |-> roleId, gone |-> gone]
  /\ UNCHANGED <<twin, unwritten, naming, variant, guild, db, created, deleted, tasks, prev, batch, pass,
                 queue, observed>>

\* The caller of getEventRole has the role, the null or the error.
LookupReturn ==
  /\ lookup.out # "none"
  /\ lookup' = NoLookup
  /\ UNCHANGED <<twin, unwritten, naming, variant, guild, db, created, deleted, tasks, prev, batch, pass,
                 queue, observed>>

\* ------------------------------------------------ OnClientReady.run (eventInit)
\* A find that takes any role for the event's.
HasAnyRole(rs, roleId) == rs # {}

\* member.roles.cache.find((role) => role.id === roleId)
HasRole(rs, roleId) == \E r \in rs : r = roleId

\* The process starts and the client is ready: run() fetches the guild and its
\* scheduled events, then awaits batchProcessEvents(events). Nothing of run()
\* is inside a try.
PassStart ==
  /\ variant = "plain"
  /\ Quiet
  /\ \A t \in TaskIds : tasks[t].pc = "idle"
  /\ \E out \in {"ok", "threw"}, input \in FetchedMaps :
       IF out = "threw"
         THEN /\ pass' = [IdlePass EXCEPT !.pc = "threw"]
              /\ UNCHANGED <<tasks, batch>>
         ELSE /\ pass' = [IdlePass EXCEPT !.pc = "batch"]
              /\ BatchEnter(input)
  /\ UNCHANGED <<twin, unwritten, naming, variant, guild, db, created, deleted, prev, lookup, queue,
                 observed>>

\* batchProcessEvents returned: the loop over processedEvents begins.
PassResume ==
  /\ pass.pc = "batch"
  /\ batch.pc = "done"
  /\ pass' = [pass EXCEPT !.pc = "loop", !.processed = batch.result, !.i = 1]
  /\ batch' = IdleBatch
  /\ UNCHANGED <<twin, unwritten, naming, variant, guild, db, created, deleted, tasks, prev, lookup,
                 queue, observed>>

\* for (const event of processedEvents): a null slot is skipped, for another
\* getEventRoleId(event.id) is awaited; after the last slot run() returns.
PassNext ==
  /\ pass.pc = "loop"
  /\ pass' =
       IF pass.i > Len(pass.processed) THEN [pass EXCEPT !.pc = "done"]
       ELSE IF pass.processed[pass.i].kind # "event" THEN [pass EXCEPT !.i = @ + 1]
       ELSE [pass EXCEPT !.pc = "roleid"]
  /\ UNCHANGED <<twin, unwritten, naming, variant, guild, db, created, deleted, tasks, prev, batch,
                 lookup, queue, observed>>

\* await scheduledEventsService.getEventRoleId(event.id) settles; with a role
\* id, event.fetchSubscribers({ withMember: true }) is awaited.
PassRoleId ==
  /\ pass.pc = "roleid"
  /\ \E find \in {"ok", "threw"} :
       LET e == pass.processed[pass.i].id
           roleId == RoleIdOf(FindScheduledEvent(db, e))
       IN pass' =
            IF find = "threw" THEN [pass EXCEPT !.pc = "threw"]
            ELSE IF roleId = NoRole THEN [pass EXCEPT !.pc = "loop", !.i = @ + 1]
            ELSE [pass EXCEPT !.pc = "subs", !.roleId = roleId]
  /\ UNCHANGED <<twin, unwritten, naming, variant, guild, db, created, deleted, tasks, prev, batch,
                 lookup, queue, observed>>

\* await event.fetchSubscribers(...) settles: the subscribers, some with a member.
PassSubs ==
  /\ pass.pc = "subs"
  /\ \E out \in {"ok", "threw"}, S \in SUBSET Users :
     \E M \in SUBSET S :
       IF out = "threw"
            THEN pass' = [pass EXCEPT !.pc = "threw"]
            ELSE pass' = [pass EXCEPT !.pc = "member", !.subs = S, !.members = M]
  /\ UNCHANGED <<twin, unwritten, naming, variant, guild, db, created, deleted, tasks, prev, batch,
                 lookup, queue, observed>>

\* for (const [_userID, subscriber] of subscribers): a subscriber without a
\* member is skipped; for another, member.fetch() is awaited and, if the member
\* lacks the role, queueAssignment(event, member.user) is called. The
\* collection is iterated in the order of the user ids.
PassMember ==
  /\ pass.pc = "member"
  /\ LET e == pass.processed[pass.i].id
     IN IF pass.subs = {}
          THEN /\ pass' = [pass EXCEPT !.pc = "loop", !.i = @ + 1, !.roleId = NoRole,
                                       !.members = {}]
               /\ observed' = NotObserved
               /\ UNCHANGED queue
          ELSE LET u == CHOOSE x \in pass.subs : \A y \in pass.subs : x <= y IN
                 IF u \notin pass.members
                   THEN /\ pass' = [pass EXCEPT !.subs = @ \ {u}]
                        /\ observed' = [observed EXCEPT ![u] = "nomember"]
                        /\ UNCHANGED queue
                   ELSE \E out \in {"ok", "threw"}, rs \in SUBSET (1..Len(created)) :
                          IF out = "threw"
                            THEN /\ pass' = [pass EXCEPT !.pc = "threw"]
                                 /\ UNCHANGED <<queue, observed>>
                            ELSE /\ pass' = [pass EXCEPT !.subs = @ \ {u}]
                                 /\ observed' = [observed EXCEPT ![u] =
                                      IF pass.roleId \in rs THEN "held" ELSE "lacking"]
                                 /\ queue' = IF HasRole(rs, pass.roleId) THEN queue
                                             ELSE Append(queue, <<e, u>>)
  /\ UNCHANGED <<twin, unwritten, naming, variant, guild, db, created, deleted, tasks, prev, batch, lookup>>

\* The process ends, after run() returned or threw: the queue is in memory only.
PassExit ==
  /\ pass.pc \in {"done", "threw"}
  /\ pass' = IdlePass
  /\ queue' = <<>>
  /\ observed' = NotObserved
  /\ UNCHANGED <<twin, unwritten, naming, variant, guild, db, created, deleted, tasks, prev, batch, lookup>>

\* ------------------------------------------------------------ the guild
\* Someone deletes, in the guild, a role that a record names. processEvent
\* never reads the guild's roles, so the deletions are taken between calls.
DeleteRole(r) ==
  /\ Quiet
  /\ \A t \in TaskIds : tasks[t].pc = "idle"
  /\ r \in {rec.roleId : rec \in db}
  /\ r \notin deleted
  /\ deleted' = deleted \cup {r}
  /\ UNCHANGED <<twin, unwritten, naming, variant, guild, db, created, tasks, prev, batch, lookup, pass,
                 queue, observed>>

\* ---------------------------------------------------------------- Init
Init ==
  /\ variant \in {"embed", "plain"}
  /\ guild \in [Events -> BOOLEAN]
  /\ db = {}
  /\ created = <<>>
  /\ deleted = {}
  /\ tasks = [t \in TaskIds |-> IdleTask]
  /\ prev = NoPrev
  /\ batch = IdleBatch
  /\ lookup = NoLookup
  /\ pass = IdlePass
  /\ queue = <<>>
  /\ observed = NotObserved
  /\ naming = NoNaming
  /\ unwritten = {}
  /\ twin = TwinInit

\* The service under sequential callers.
NextService ==
  \/ \E e \in Events : Call(1, e)
  \/ PE_Find(1)
  \/ PE_Create(1)
  \/ PE_Write(1)
  \/ Return(1)
  \/ \E input \in EventMaps : BatchCall(input)
  \/ BatchCollect
  \/ BatchReturn
  \/ \E r \in RoleIds : DeleteRole(r)

Next ==
  \/ NextService
  \/ \E e \in Events : GetEventRole(e)
  \/ LookupReturn

Spec == Init /\ [][Next]_vars

\* The listener's run() at each start of the process, lib variant.
InitPass == Init /\ variant = "plain"

NextPass ==
  \/ PassStart
  \/ PE_Find(1)
  \/ PE_Create(1)
  \/ PE_Write(1)
  \/ BatchCollect
  \/ PassResume
  \/ PassNext
  \/ PassRoleId
  \/ PassSubs
  \/ PassMember
  \/ PassExit

SpecPass == InitPass /\ [][NextPass]_vars

\* part_000 alone: the variant that has no getEventRole.
InitEmbed == Init /\ variant = "embed"
SpecEmbed == InitEmbed /\ [][NextService]_vars

\* Callers that do not wait for each other: the invocations interleave at
\* their awaits. A restart of the process drops the invocations under way.
Restart ==
  /\ \E t \in TaskIds : tasks[t].pc # "idle"
  /\ tasks' = [t \in TaskIds |-> IdleTask]
  /\ prev' = NoPrev
  /\ UNCHANGED <<twin, unwritten, naming, variant, guild, db, created, deleted, batch, lookup, pass,
                 queue, observed>>

NextConc ==
  \/ \E t \in TaskIds, e \in Events : Call(t, e)
  \/ \E t \in TaskIds : PE_Find(t)
  \/ \E t \in TaskIds : PE_Create(t)
  \/ \E t \in TaskIds : PE_Write(t)
  \/ \E t \in TaskIds : Return(t)
  \/ Restart

SpecConc == Init /\ [][NextConc]_vars

\* ------------------- the two variants side by side: part_000 leads, lib follows
\* A lib variant that answers null where it has the event.
PlainNull(e) == Null

\* lib/ScheduledEventService.ts: return scheduledEvent
Plain(e) == [kind |-> "event", id |-> e, customRoleId |-> NoRole]

\* lib processEvent is entered: guild check, then findScheduledEvent is awaited.
TwinEnter(e) ==
  LET tk == [TwinIdleTask EXCEPT !.ev = e]
  IN IF GuildMissing(e) THEN Finish(tk, Null) ELSE [tk EXCEPT !.pc = "find"]

\* lib: await database.findScheduledEvent(...) settles, on lib's own store.
TwinFind(tw, out) ==
  LET rec == FindScheduledEvent(tw.db, tw.task.ev)
      tk == Did(tw.task, "find",
                IF out = "threw" THEN "threw"
                ELSE IF rec = NoRec THEN "none" ELSE "found")
  IN [tw EXCEPT !.task =
        IF out = "threw" THEN Finish(tk, OnError)
        ELSE IF RecordFound(rec) THEN Finish(tk, Plain(tk.ev))
        ELSE [tk EXCEPT !.pc = "create"]]

\* lib: await this.createCustomRole(...) settles.
TwinCreate(tw, out) ==
  LET role == IF out = "ok" THEN Len(tw.created) + 1 ELSE NoRole
      tk == Did(tw.task, "create", out)
  IN [tw EXCEPT !.created = IF out = "ok" THEN Append(@, tk.ev) ELSE @,
                !.task = IF out = "threw" THEN Finish(tk, OnError)
                         ELSE IF RoleMissing(role) THEN Finish(tk, Null)
                         ELSE [tk EXCEPT !.pc = "write", !.role = role]]

\* lib: await this.createEventDBEntry(...) settles, processQueues() included.
TwinWrite(tw, out, sig) ==
  LET tk == Did(tw.task, "write", out)
      accepted == out # "threw" /\ WriteAccepted(AffectedRows(out))
  IN [tw EXCEPT !.db = Insert(@, tk.ev, tk.role, out),
                !.created = IF out # "threw" /\ ~accepted
                              THEN AfterFailedWrite(@, tk.role) ELSE @,
                !.task = IF out = "threw" THEN Finish(tk, OnError)
                         ELSE IF accepted
                           THEN IF sig = "threw"
                                  THEN Finish(Did(tk, "signal", "threw"), OnError)
                                  ELSE Finish(Did(tk, "signal", "ok"), Plain(tk.ev))
                         ELSE Finish(tk, Null)]

\* lib batchProcessEvents is entered with the same events.
TwinBatchEnter(tw, input) ==
  [tw EXCEPT !.batch = [pc |-> IF input = <<>> THEN "done" ELSE "run",
                        input |-> input, idx |-> 1, result |-> <<>>],
             !.task = IF input = <<>> THEN TwinIdleTask ELSE TwinEnter(input[1])]

\* lib: await this.processEvent(event) settles inside the loop.
TwinBatchCollect(tw) ==
  LET more == tw.batch.idx < Len(tw.batch.input)
  IN [tw EXCEPT !.batch.result = Pushed(@, tw.task.ret),
                !.batch.idx = IF more THEN @ + 1 ELSE @,
                !.batch.pc = IF more THEN "run" ELSE "done",
                !.task = IF more THEN TwinEnter(Following(tw.batch.input, tw.batch.idx))
                         ELSE TwinIdleTask]

\* lib has done what part_000 has done.
Synced ==
  /\ twin.task.pc = tasks[1].pc
  /\ twin.task.ev = tasks[1].ev
  /\ Len(twin.task.fx) = Len(tasks[1].fx)
  /\ twin.batch.pc = batch.pc
  /\ twin.batch.idx = batch.idx

\* The step of lib that answers part_000's last step: the same call made of
\* it, or its pending external call settled with the outcome part_000 had.
TwinStep ==
  /\ ~Synced
  /\ LET k == Len(twin.task.fx) + 1
         lead == tasks[1].fx
     IN twin' =
          IF twin.batch.pc = "idle" /\ batch.pc # "idle"
            THEN TwinBatchEnter(twin, batch.input)
          ELSE IF twin.batch.pc = "done" /\ batch.pc = "idle"
            THEN [twin EXCEPT !.batch = TwinIdleBatch]
          ELSE IF /\ twin.batch.pc = "run"
                  /\ batch.idx > twin.batch.idx \/ batch.pc = "done"
                  /\ twin.task.pc = "ret"
            THEN TwinBatchCollect(twin)
          ELSE IF twin.task.pc = "idle" /\ tasks[1].pc # "idle"
            THEN [twin EXCEPT !.task = TwinEnter(tasks[1].ev)]
          ELSE IF twin.task.pc = "ret" /\ tasks[1].pc = "idle"
            THEN [twin EXCEPT !.task = TwinIdleTask]
          ELSE IF k <= Len(lead) /\ twin.task.pc = lead[k][1]
            THEN CASE lead[k][1] = "find" ->
                        TwinFind(twin, IF lead[k][2] = "threw" THEN "threw" ELSE "ok")
                   [] lead[k][1] = "create" -> TwinCreate(twin, lead[k][2])
                   [] lead[k][1] = "write" ->
                        TwinWrite(twin, lead[k][2],
                                  IF k < Len(lead) THEN lead[k + 1][2] ELSE "ok")
                   [] OTHER -> twin
          ELSE twin
  /\ UNCHANGED <<variant, guild, db, created, deleted, tasks, prev, batch, lookup,
                 pass, queue, observed, naming, unwritten>>

\* part_000 takes a step when lib has answered the one before.
NextBoth ==
  \/ Synced /\ \E e \in Events : Call(1, e)
  \/ Synced /\ PE_Find(1)
  \/ Synced /\ PE_Create(1)
  \/ Synced /\ PE_Write(1)
  \/ Synced /\ Return(1)
  \/ Synced /\ \E input \in EventMaps : BatchCall(input)
  \/ Synced /\ BatchCollect
  \/ Synced /\ BatchReturn
  \/ TwinStep

SpecBoth == InitEmbed /\ [][NextBoth]_vars

\* createCustomRole's naming alone, over the events it can be given.
NextName ==
  \/ \E event \in EventInputs : NameCall(event)
  \/ NameRole

SpecName == Init /\ [][NextName]_vars

\* NumTasks invocations of processEvent, each entered at any moment and
\* interleaved with the others at its awaits, none awaited by a caller that
\* would call again.
NextRace ==
  \/ \E t \in TaskIds, e \in Events : Call(t, e)
  \/ \E t \in TaskIds : PE_Find(t)
  \/ \E t \in TaskIds : PE_Create(t)
  \/ \E t \in TaskIds : PE_Write(t)

SpecRace == Init /\ [][NextRace]_vars

\* ------------------------------------------------------------ properties
Has(tk, op, out) == \E i \in 1..Len(tk.fx) : tk.fx[i] = <<op, out>>
Ops(tk, op) == \E i \in 1..Len(tk.fx) : tk.fx[i][1] = op

\* One of the external calls of the invocation failed.
CallFailed(tk) ==
  \/ Has(tk, "find", "threw")
  \/ Has(tk, "create", "threw") \/ Has(tk, "create", "undef")
  \/ Has(tk, "write", "zero") \/ Has(tk, "write", "threw")
  \/ Has(tk, "signal", "threw")

Intents(e, u) == Cardinality({i \in 1..Len(queue) : queue[i] = <<e, u>>})
EventRole(e) == IF RecordsOf(db, e) = {} THEN NoRole
                ELSE (CHOOSE rec \in RecordsOf(db, e) : TRUE).roleId

C2_AtMostOneRoleAndRecord ==
  \A e \in Events :
    /\ Cardinality(RolesOf(e)) <= 1
    /\ Cardinality(RecordsOf(db, e)) <= 1

C4_ZeroRowsNoSignal ==
  \A t \in TaskIds :
    LET tk == tasks[t] IN
    Has(tk, "write", "zero") =>
      /\ tk.pc = "ret"
      /\ tk.ret = Null
      /\ ~Ops(tk, "signal")

C4_Witness ==
  \E t \in TaskIds :
    /\ tasks[t].pc = "ret"
    /\ Has(tasks[t], "write", "zero")
    /\ tasks[t].role \in RolesOf(tasks[t].ev)

\* C5: run() enqueues one intent (event, user) for each fetched member that
\* lacked the event's role when checked and none for one that held it; the
\* queue gets an intent only for a subscriber with a member of the event of a
\* non-null slot, under that event's persisted role, never two for one pair;
\* run() leaves an event only when each of its subscribers with a member is
\* checked.
C5_IntentsMatchChecks ==
  /\ [](/\ pass.pc = "member" =>
             \A u \in Users :
               Intents(pass.processed[pass.i].id, u) =
                 IF observed[u] = "lacking" THEN 1 ELSE 0
        /\ \A e \in Events, u \in Users :
             /\ Intents(e, u) <= 1
             /\ Intents(e, u) = 1 =>
                  \E i \in 1..Len(pass.processed) :
                    /\ i <= pass.i
                    /\ pass.processed[i].kind = "event"
                    /\ pass.processed[i].id = e)
  /\ [][/\ \A e \in Events, u \in Users :
            (Intents(e, u)' # Intents(e, u) /\ pass'.pc # "idle") =>
              /\ pass.pc = "member"
              /\ pass.processed[pass.i].id = e
              /\ u \in pass.subs /\ u \in pass.members
              /\ pass.roleId = EventRole(e) /\ pass.roleId # NoRole
              /\ observed[u] = NotChecked /\ observed'[u] = "lacking"
        /\ (pass.pc = "member" /\ pass'.pc = "loop") =>
             \A u \in pass.members : observed[u] # NotChecked]_vars

C5_Witness ==
  /\ pass.pc = "member"
  /\ pass.subs = {}
  /\ \E u, w \in Users :
       /\ u # w
       /\ observed[u] = "held"
       /\ observed[w] = "lacking"
       /\ Intents(pass.processed[pass.i].id, u) = 0
       /\ Intents(pass.processed[pass.i].id, w) = 1

\* C6: a record, once written, stays as it is, one per event; a processEvent
\* that starts with its event's record persisted creates no role and writes no
\* record, also when that role was deleted; the deletion shows as the null of
\* getEventRole.
C6_RecordImmutable ==
  [][/\ \A rec \in db : rec \in db'
     /\ \A e \in Events : Cardinality(RecordsOf(db', e)) <= 1
     /\ \A t \in TaskIds :
          LET tk == tasks'[t] IN
          RecordsOf(tk.dbStart, tk.ev) # {} =>
            /\ ~Ops(tk, "create") /\ ~Ops(tk, "write")
            /\ Len(created') = tk.rolesStart
            /\ db' = tk.dbStart
     /\ lookup'.gone => lookup'.out = "null"]_vars

C6_Witness ==
  \E t \in TaskIds :
    /\ tasks[t].pc = "ret"
    /\ tasks[t].ret.kind = "event"
    /\ \E rec \in RecordsOf(tasks[t].dbStart, tasks[t].ev) : rec.roleId \in deleted

\* C7: processEvent never throws to its caller; whichever of the lookup, the
\* role creation, the write or the queue signal fails, it returns null.
C7_NeverThrows ==
  /\ \A t \in TaskIds :
       /\ tasks[t].ret.kind # "threw"
       /\ (tasks[t].pc = "ret" /\ CallFailed(tasks[t])) => tasks[t].ret = Null
  /\ \A i \in 1..Len(batch.log) : batch.log[i].ret.kind # "threw"

C7_Witness ==
  \E t \in TaskIds :
    /\ tasks[t].pc = "ret"
    /\ Has(tasks[t], "signal", "threw")
    /\ tasks[t].ret = Null

\* C8: no failure of a fetch or a lookup inside run() leaves run() as an error.
C8_PassNeverAborts == pass.pc # "threw"

\* C9: a role creation that throws or gives no role makes processEvent return
\* null, with the store as it was, no write and no queue signal.
C9_CreateFailureLeavesStore ==
  \A t \in TaskIds :
    LET tk == tasks[t] IN
    (Has(tk, "create", "threw") \/ Has(tk, "create", "undef")) =>
      /\ tk.pc = "ret"
      /\ tk.ret = Null
      /\ db = tk.dbStart
      /\ ~Ops(tk, "write")
      /\ ~Ops(tk, "signal")

C9_Witness ==
  \E t \in TaskIds :
    /\ tasks[t].pc = "ret"
    /\ Has(tasks[t], "create", "undef")
    /\ tasks[t].ret = Null

\* C10: for an event without a guild processEvent returns null and does
\* nothing else: no lookup, no role, no write, no signal.
C10_NoGuildNoEffect ==
  \A t \in TaskIds :
    LET tk == tasks[t] IN
    (tk.pc # "idle" /\ ~guild[tk.ev]) =>
      /\ tk.pc = "ret"
      /\ tk.ret = Null
      /\ tk.fx = <<>>
      /\ db = tk.dbStart
      /\ Len(created) = tk.rolesStart

C10_Witness ==
  \E t \in TaskIds :
    /\ tasks[t].pc = "ret"
    /\ ~guild[tasks[t].ev]
    /\ tasks[t].ret = Null

\* C11 as stated: every non-null result of processEvent(E) is E carrying the
\* roleId of E's persisted record, whether the record was found or written by
\* the call.
C11_ResultCarriesRoleId ==
  \A t \in TaskIds :
    LET tk == tasks[t] IN
    (tk.pc = "ret" /\ tk.ret.kind # "null") =>
      /\ tk.ret.kind = "event" /\ tk.ret.id = tk.ev
      /\ EventRole(tk.ev) # NoRole
      /\ tk.ret.customRoleId = EventRole(tk.ev)

\* C11 as amended: every non-null result of processEvent(E) is E, returned
\* while E has a persisted record, found or written by the call; part_000 puts
\* that record's roleId on it as customRoleId, the lib variant returns E
\* without one.
C11_ResultIsEventWithRecord ==
  \A t \in TaskIds :
    LET tk == tasks[t] IN
    (tk.pc = "ret" /\ tk.ret.kind # "null") =>
      /\ tk.ret.kind = "event" /\ tk.ret.id = tk.ev
      /\ EventRole(tk.ev) # NoRole
      /\ Has(tk, "find", "found") \/ Has(tk, "write", "ok")
      /\ Has(tk, "write", "ok") => EventRole(tk.ev) = tk.role
      /\ tk.ret.customRoleId =
           IF variant = "embed" THEN EventRole(tk.ev) ELSE NoRole

C11_Witness ==
  /\ variant = "embed"
  /\ \E t \in TaskIds :
       /\ tasks[t].pc = "ret"
       /\ tasks[t].ret.kind = "event"
       /\ Has(tasks[t], "write", "ok")
       /\ tasks[t].ret.customRoleId = tasks[t].role
       /\ tasks[t].role = EventRole(tasks[t].ev)

\* What follows the truncated event name in the name built.
Suffix ==
  SubSeq(naming.name, Len(ReasonableTruncate(naming.event.name)) + 1,
         Len(naming.name))

\* C12: the role name ends in a bracketed label chosen by recurrence: with a
\* recurrence rule, Yearly, Monthly, Weekly, Daily for frequency 0, 1, 2, 3 and
\* the empty label for any other frequency; without one, the formatted start
\* timestamp and never a frequency label.
C12_SuffixByRecurrence ==
  naming.pc = "named" =>
    LET f == naming.event.rule IN
    /\ SubSeq(naming.name, 1, Len(naming.name) - Len(Suffix)) =
         ReasonableTruncate(naming.event.name)
    /\ f = 0 => Suffix = " [Yearly]"
    /\ f = 1 => Suffix = " [Monthly]"
    /\ f = 2 => Suffix = " [Weekly]"
    /\ f = 3 => Suffix = " [Daily]"
    /\ (f # NoRule /\ f \notin 0..3) => Suffix = " []"
    /\ f = NoRule =>
         /\ Suffix \notin {" [Yearly]", " [Monthly]", " [Weekly]", " [Daily]", " []"}
         /\ Suffix = " [" \o Display(StartTime(naming.event.start)) \o "]"
         /\ Len(Suffix) = 15

C12_Witness ==
  /\ naming.pc = "named"
  /\ naming.event.name = "Standup"
  /\ naming.event.rule = 2
  /\ naming.name = "Standup [Weekly]"

C12_WitnessStart ==
  /\ naming.pc = "named"
  /\ naming.event.rule = NoRule
  /\ naming.name = "Board Game Night [Mar-03 18:00]"

\* The external calls of one invocation come in the order of the code.
Ordered(tk) ==
  /\ Len(tk.fx) <= 4
  /\ \A i \in 1..Len(tk.fx) :
       /\ tk.fx[i][1] = "find" => i = 1
       /\ tk.fx[i][1] = "create" =>
            /\ i = 2
            /\ tk.fx[1] = <<"find", "none">>
            /\ RecordsOf(tk.dbStart, tk.ev) = {}
       /\ tk.fx[i][1] = "write" =>
            /\ i = 3
            /\ tk.fx[2] = <<"create", "ok">>
            /\ tk.role \in RolesOf(tk.ev)
       /\ tk.fx[i][1] = "signal" =>
            /\ i = 4
            /\ tk.fx[3] = <<"write", "ok">>
            /\ [eventId |-> tk.ev, roleId |-> tk.role] \in db

\* C13: within one processEvent call, role creation is called only after the
\* call's own lookup returned no record, the write only after role creation
\* returned a role, and processQueues only after the write reported more than
\* zero rows.
C13_EffectsOrdered ==
  /\ \A t \in TaskIds : Ordered(tasks[t])
  /\ \A i \in 1..Len(batch.log) : Ordered(batch.log[i])

C13_Witness ==
  \E t \in TaskIds :
    /\ tasks[t].pc = "ret"
    /\ tasks[t].fx = <<<<"find", "none">>, <<"create", "ok">>, <<"write", "ok">>,
                       <<"signal", "ok">>>>
    /\ tasks[t].ret.kind = "event"

\* C14: one batchProcessEvents invocation passes each input event to
\* processEvent once, in the order of the input, and enters the processEvent of
\* the next event only when that of the one before has completed: every
\* lookup, role creation and write in between is for the event at hand.
C14_BatchOneAtATime ==
  /\ [](batch.pc \in {"run", "done"} =>
          /\ Len(batch.log) =
               IF batch.pc = "run" THEN batch.idx - 1 ELSE Len(batch.input)
          /\ \A i \in 1..Len(batch.log) :
               /\ batch.log[i].ev = batch.input[i]
               /\ batch.log[i].pc = "ret"
          /\ batch.pc = "run" =>
               /\ tasks[1].ev = batch.input[batch.idx]
               /\ tasks[1].pc # "idle"
          /\ \A t \in TaskIds \ {1} : tasks[t].pc = "idle")
  /\ [][(batch.pc = "run" /\ batch'.pc = "run") =>
          /\ (tasks'[1].ev # tasks[1].ev \/ batch'.idx # batch.idx) =>
               /\ tasks[1].pc = "ret"
               /\ batch'.idx = batch.idx + 1
               /\ batch'.log = Append(batch.log, tasks[1])
               /\ tasks'[1].fx = <<>>
               /\ UNCHANGED <<db, created>>
          /\ \A rec \in db' \ db : rec.eventId = batch.input[batch.idx]
          /\ Len(created') > Len(created) =>
               created'[Len(created')] = batch.input[batch.idx]
          /\ Len(tasks'[1].fx) > Len(tasks[1].fx) => tasks'[1].ev = tasks[1].ev]_vars

C14_Witness ==
  /\ batch.pc = "done"
  /\ Len(batch.input) = 2
  /\ Has(batch.log[1], "write", "ok")
  /\ Has(batch.log[2], "write", "ok")
  /\ created = batch.input

\* C15: two processEvent invocations for one event without a record, both
\* having looked up before either wrote, both go on to role creation, and when
\* both creations give a role the event has two roles: nothing between the
\* lookup and the write holds the second invocation back.
C15_BothCreate ==
  /\ \A t \in TaskIds :
       Has(tasks[t], "find", "none") =>
         \/ tasks[t].pc = "create"
         \/ Ops(tasks[t], "create")
  /\ \A t, u \in TaskIds :
       (/\ t # u
        /\ tasks[t].ev = tasks[u].ev
        /\ Has(tasks[t], "create", "ok")
        /\ Has(tasks[u], "create", "ok")) =>
         /\ tasks[t].role # tasks[u].role
         /\ {tasks[t].role, tasks[u].role} \subseteq RolesOf(tasks[t].ev)
         /\ Cardinality(RolesOf(tasks[t].ev)) >= 2

C15_Witness ==
  \E t, u \in TaskIds :
    /\ t # u
    /\ tasks[t].ev = tasks[u].ev
    /\ RecordsOf(tasks[t].dbStart, tasks[t].ev) = {}
    /\ RecordsOf(tasks[u].dbStart, tasks[u].ev) = {}
    /\ ~Ops(tasks[t], "write") /\ ~Ops(tasks[u], "write")
    /\ Has(tasks[t], "create", "ok")
    /\ Has(tasks[u], "create", "ok")
    /\ Cardinality(RolesOf(tasks[t].ev)) = 2

\* The roles that no record names.
Unlinked(d) == {r \in 1..Len(created) : \A rec \in d : rec.roleId # r}

\* C16: after a processEvent(E) whose write reported zero rows, the role it
\* made exists and no record names it; the processEvent(E) called next finds
\* no record and calls role creation again, which gives E a second role; no
\* step removes a role or puts a role that was left unlinked into a record.
C16_OrphanThenSecondRole ==
  /\ [](/\ prev.kind = "zero" =>
             /\ prev.role \in RolesOf(prev.ev)
             /\ prev.role \in Unlinked(db)
        /\ \A t \in TaskIds :
             LET tk == tasks[t] IN
             tk.after = "zero" =>
               /\ prev.ev = tk.ev /\ prev.kind = "zero"
               /\ RecordsOf(tk.dbStart, tk.ev) = {}
               /\ prev.role <= tk.rolesStart
               /\ ~Has(tk, "find", "found")
               /\ Has(tk, "find", "none") =>
                    tk.pc = "create" \/ Ops(tk, "create")
               /\ Has(tk, "create", "ok") =>
                    /\ tk.role # prev.role
                    /\ {prev.role, tk.role} \subseteq RolesOf(tk.ev)
               /\ Has(tk, "write", "ok") =>
                    RecordsOf(db, tk.ev) = {[eventId |-> tk.ev, roleId |-> tk.role]})
  /\ [][/\ Len(created') >= Len(created)
        /\ \A r \in 1..Len(created) : created'[r] = created[r]
        /\ \A r \in Unlinked(db) :
             r \in Unlinked(db') \/ \E t \in TaskIds : /\ tasks[t].pc = "write"
                                                       /\ tasks[t].role = r
                                                       /\ ~Ops(tasks[t], "write")]_vars

C16_Witness ==
  \E t \in TaskIds :
    /\ tasks[t].after = "zero"
    /\ tasks[t].pc = "ret"
    /\ Has(tasks[t], "write", "ok")
    /\ Cardinality(RolesOf(tasks[t].ev)) = 2
    /\ prev.role \in Unlinked(db)

Signals(tk) == Cardinality({i \in 1..Len(tk.fx) : tk.fx[i][1] = "signal"})

\* C17 as stated: a completed processEvent call has called processQueues once
\* if it wrote a new record and not at all if it found a record or failed.
SignalOncePerWriter(tk) ==
  tk.pc = "ret" =>
    /\ Has(tk, "write", "ok") => Signals(tk) = 1
    /\ Has(tk, "find", "found") => Signals(tk) = 0
    /\ tk.ret = Null => Signals(tk) = 0

C17_SignalOnlyOnSuccess ==
  /\ \A t \in TaskIds : SignalOncePerWriter(tasks[t])
  /\ \A i \in 1..Len(batch.log) : SignalOncePerWriter(batch.log[i])

\* processQueues is called by the calls that wrote a record and by no other.
SignalByWritersOnly(tk) ==
  /\ Signals(tk) <= 1
  /\ Signals(tk) = 1 =>
       /\ Has(tk, "write", "ok")
       /\ [eventId |-> tk.ev, roleId |-> tk.role] \in db \ tk.dbStart
       /\ tk.pc = "ret"
  /\ Has(tk, "find", "found") => Signals(tk) = 0
  /\ (\/ Has(tk, "find", "threw")
      \/ Has(tk, "create", "threw") \/ Has(tk, "create", "undef")
      \/ Has(tk, "write", "zero") \/ Has(tk, "write", "threw")) => Signals(tk) = 0
  /\ tk.pc = "ret" =>
       /\ Has(tk, "write", "ok") => Signals(tk) = 1
       /\ tk.ret = Null =>
            Signals(tk) = 0 \/ (Has(tk, "write", "ok") /\ Has(tk, "signal", "threw"))
       /\ Has(tk, "signal", "threw") => tk.ret = Null
       /\ Has(tk, "signal", "ok") => tk.ret.kind = "event"

\* C17 as amended: each processEvent call whose write gave a new record calls
\* processQueues once, in the step of the write and with nothing awaited
\* before it returns; a call that finds a record, or whose lookup, role
\* creation or write fails, never calls it, nor does getEventRoleId or
\* getEventRole; a call whose processQueues call throws has written the record
\* and returns null.
C17_SignalByWriters ==
  /\ [](/\ \A t \in TaskIds : SignalByWritersOnly(tasks[t])
        /\ \A i \in 1..Len(batch.log) : SignalByWritersOnly(batch.log[i]))
  /\ [][/\ \A t \in TaskIds :
             Signals(tasks'[t]) > Signals(tasks[t]) =>
               /\ tasks[t].pc = "write"
               /\ tasks'[t].pc = "ret"
               /\ db' # db
               /\ UNCHANGED <<queue, pass, lookup>>
        /\ (lookup' # lookup \/ pass.pc = "roleid") => UNCHANGED <<tasks, batch>>]_vars

C17_Witness ==
  \E t \in TaskIds :
    /\ tasks[t].pc = "ret"
    /\ Has(tasks[t], "write", "ok")
    /\ Has(tasks[t], "signal", "ok")
    /\ tasks[t].ret.kind = "event"
    /\ \E rec \in db : rec.eventId # tasks[t].ev

\* The subscribers of the event run() is at that it has been through.
Seen == {u \in Users : observed[u] # NotChecked}

Writing(e) == {t \in TaskIds : tasks[t].pc = "write" /\ tasks[t].ev = e}

CanFollow ==
  \/ twin.batch.pc = "idle" /\ batch.pc # "idle"
  \/ twin.batch.pc = "done" /\ batch.pc = "idle"
  \/ /\ twin.batch.pc = "run"
     /\ batch.idx > twin.batch.idx \/ batch.pc = "done"
     /\ twin.task.pc = "ret"
  \/ twin.task.pc = "idle" /\ tasks[1].pc # "idle"
  \/ twin.task.pc = "ret" /\ tasks[1].pc = "idle"
  \/ /\ twin.task.ev = tasks[1].ev
     /\ Len(twin.task.fx) < Len(tasks[1].fx)
     /\ twin.task.pc = tasks[1].fx[Len(twin.task.fx) + 1][1]

\* C20: part_000 and lib/ScheduledEventService.ts, given the same processEvent
\* and batchProcessEvents calls and the same outcomes of the external calls,
\* make the same lookups, role creations, writes and processQueues calls in
\* the same order, leave the same records and roles, and return null in the
\* same calls and slots; a non-null result differs only in customRoleId, which
\* part_000 sets to the persisted roleId and lib leaves out.
C20_VariantsEquivalent ==
  /\ [](/\ ~Synced => CanFollow
        /\ Synced =>
             /\ twin.db = db
             /\ twin.created = created
             /\ twin.task.fx = tasks[1].fx
             /\ twin.task.role = tasks[1].role
             /\ twin.task.ret.kind = tasks[1].ret.kind
             /\ twin.task.ret.id = tasks[1].ret.id
             /\ twin.task.ret.customRoleId = NoRole
             /\ tasks[1].ret.kind = "event" =>
                  /\ tasks[1].ret.customRoleId = EventRole(tasks[1].ev)
                  /\ tasks[1].ret.customRoleId # NoRole
             /\ twin.batch.input = batch.input
             /\ Len(twin.batch.result) = Len(batch.result)
             /\ \A i \in 1..Len(batch.result) :
                  /\ twin.batch.result[i].kind = batch.result[i].kind
                  /\ twin.batch.result[i].id = batch.result[i].id
                  /\ twin.batch.result[i].customRoleId = NoRole)
  /\ [][~Synced => Synced']_vars

C20_Witness ==
  /\ Synced
  /\ batch.pc = "done"
  /\ Len(batch.result) = 2
  /\ batch.result[1] = Null
  /\ twin.batch.result[1] = Null
  /\ batch.result[2].kind = "event"
  /\ batch.result[2].customRoleId = EventRole(batch.input[2])
  /\ twin.batch.result[2] = Plain(batch.input[2])
  /\ Has(batch.log[2], "signal", "ok")
====
